---- MODULE Spec2Model ----
(***************************************************************************)
(* Portfolio simulator of backtest_bay: backtest_signals and its helpers.  *)
(*                                                                         *)
(* The repository holds two versions of backtest_signals.py:               *)
(*   "backtest"  src/src/backtest_bay/backtest/backtest_signals.py         *)
(*   "analysis"  src/src/backtest_bay/analysis/backtest_signals.py         *)
(* Their simulation code (lines 35-159) is identical; they differ in what  *)
(* _validate_backtest_signals_input checks.  `variant` selects the one a   *)
(* run uses.                                                               *)
(*                                                                         *)
(* Numbers.  Prices are integers.  Money and rates are exact rationals     *)
(* kept as integer numerators:                                             *)
(*   tac, trade_pct            numerator over Den                          *)
(*   cash, holdings, assets    numerator over Den                          *)
(*   trade_vol                 numerator over Den * Den                    *)
(* so that tac = Den is the rate 1 and cash = 4 * Den is 4 units of cash.  *)
(* math.floor(a / b) is Floor of the exact quotient.                       *)
(*                                                                         *)
(* data is taken to be a DataFrame whose price_col column exists and is    *)
(* numeric, and signals a Series of ints; prices and signals are then the  *)
(* two sequences the loop zips.                                            *)
(*                                                                         *)
(* Python types.  `kinds` gives the kind of value passed for initial_cash, *)
(* tac and trade_pct: "int", "float", "nan" (the float NaN) or "str".  The *)
(* numerator of a "nan" or "str" argument is unused.  Every comparison     *)
(* with a NaN is false.                                                    *)
(***************************************************************************)
EXTENDS Integers, Sequences, FiniteSets, TLC

\* Longest price / signal series drawn.
MaxLen == 3
\* Denominator of the rational numbers of the model.
Den == 2

Variants == {"backtest", "analysis"}
PriceVals == {-1, 1, 2}
SignalVals == 0 .. 3
CashVals == {2 * Den, 4 * Den}
TacVals == {0, Den \div 2, Den}
PctVals == {Den \div 2, Den}

SeqsUpTo(S, n) == UNION {[1 .. k -> S] : k \in 1 .. n}

Min(a, b) == IF a <= b THEN a ELSE b

\* math.floor(n / d) for integers n, d with d # 0
Floor(n, d) == IF d > 0 THEN n \div d ELSE (0 - n) \div (0 - d)

VARIABLES
    variant,        \* which backtest_signals.py runs
    prices,         \* data[price_col]
    signals,        \* signals
    initial_cash,   \* numerator over Den
    tac,            \* numerator over Den
    trade_pct,      \* numerator over Den
    kinds,          \* kind of value of initial_cash, tac, trade_pct
    pc,             \* "start", "loop", "done", "error"
    err,            \* the exception raised, "none" if none
    cash,           \* numerator over Den
    shares,
    holdings,       \* numerator over Den
    assets,         \* numerator over Den
    portfolio,      \* the rows appended so far
    trade_vols,     \* trade_vol of each bar simulated so far (over Den * Den)
    args,           \* generate_signals: method and keyword arguments
    gpc,            \* generate_signals: "idle", "start", "dispatch",
                    \*   "compute", "shift", "done", "error"
    gerr,           \* generate_signals: the exception raised
    raw,            \* generate_signals: the signals before the shift
    runs,           \* two calls of backtest_signals in progress at once:
                    \*   each call's arguments and local variables
    plot            \* plot_portfolio: its arguments besides the portfolio,
                    \*   its position and the metrics computed so far

vars == <<variant, prices, signals, initial_cash, tac, trade_pct, kinds, pc,
          err, cash, shares, holdings, assets, portfolio, trade_vols,
          args, gpc, gerr, raw, runs, plot>>

simvars == <<variant, initial_cash, tac, trade_pct, kinds, pc, err, cash,
             shares, holdings, assets, portfolio, trade_vols>>

genvars == <<args, gpc, gerr, raw, runs, plot>>

inputs == <<variant, prices, signals, initial_cash, tac, trade_pct, kinds>>

buy_signal == 2
sell_signal == 1

----------------------------------------------------------------------------
\* Validation

\* isinstance(x, int | float) and isinstance(x, float), by kind of value
IsIntOrFloat(k) == k \in {"int", "float", "nan"}
IsFloat(k) == k \in {"float", "nan"}

_validate_initial_cash(k, c) ==
    IF ~IsIntOrFloat(k) THEN "TypeError"
    ELSE IF k # "nan" /\ c <= 0 THEN "ValueError"
    ELSE "ok"

_validate_tac(k, t) ==
    IF ~IsIntOrFloat(k) THEN "TypeError"
    ELSE IF ~(k # "nan" /\ 0 <= t /\ t <= Den) THEN "ValueError"
    ELSE "ok"

_validate_trade_pct(k, p) ==
    IF ~IsFloat(k) THEN "TypeError"
    ELSE IF ~(k # "nan" /\ 0 < p /\ p <= Den) THEN "ValueError"
    ELSE "ok"

\* analysis version only: values in [0, 1, 2], then the length
_validate_signals(sigs, prs) ==
    IF ~(\A k \in 1 .. Len(sigs) : sigs[k] \in {0, 1, 2}) THEN "ValueError"
    ELSE IF Len(sigs) # Len(prs) THEN "ValueError"
    ELSE "ok"

\* the first check of a chain that raises
FirstError(checks) ==
    IF \E k \in 1 .. Len(checks) : checks[k] # "ok"
    THEN checks[CHOOSE k \in 1 .. Len(checks) :
                    /\ checks[k] # "ok"
                    /\ \A j \in 1 .. (k - 1) : checks[j] = "ok"]
    ELSE "ok"

\* backtest version
_validate_backtest_signals_input(ks, c, t, p) ==
    FirstError(<<_validate_initial_cash(ks.initial_cash, c),
                 _validate_tac(ks.tac, t),
                 _validate_trade_pct(ks.trade_pct, p)>>)

\* analysis version
analysis_validate_backtest_signals_input(sigs, prs, ks, c, t, p) ==
    FirstError(<<_validate_signals(sigs, prs),
                 _validate_initial_cash(ks.initial_cash, c),
                 _validate_tac(ks.tac, t),
                 _validate_trade_pct(ks.trade_pct, p)>>)

----------------------------------------------------------------------------
\* Trade executor.  A result is [cash, shares, raised].

Result(c, s) == [cash |-> c, shares |-> s, raised |-> FALSE]
Raised(c, s) == [cash |-> c, shares |-> s, raised |-> TRUE]

\* faulty version: the cash is not compared with the cost
_is_buy_trade_affordable_no_cash_check(buy_shares, cost, c) ==
    buy_shares >= 1

_is_buy_trade_affordable(buy_shares, cost, c) ==
    LET is_trade_vol_enough == buy_shares >= 1
        is_cash_enough == c >= cost
    IN  is_trade_vol_enough /\ is_cash_enough

\* faulty version: the quantity is rounded up
_execute_buy_rounds_up(c, price, s, trade_vol, t) ==
    LET divisor == price * (Den + t)
        buy_shares == 0 - Floor(0 - trade_vol, Den * divisor)
        cost == buy_shares * price * (Den + t)
    IN  IF divisor = 0 THEN Raised(c, s)
        ELSE IF ~_is_buy_trade_affordable(buy_shares, cost, c) THEN Result(c, s)
        ELSE Result(c - cost, s + buy_shares)

\* faulty version: an order the cash does not cover is cut down to what it covers
_execute_buy_partial(c, price, s, trade_vol, t) ==
    LET divisor == price * (Den + t)
        wanted == Floor(trade_vol, Den * divisor)
        covered == Floor(c, divisor)
        buy_shares == Min(wanted, covered)
        cost == buy_shares * price * (Den + t)
    IN  IF divisor = 0 THEN Raised(c, s)
        ELSE IF ~(buy_shares >= 1) THEN Result(c, s)
        ELSE Result(c - cost, s + buy_shares)

_execute_buy(c, price, s, trade_vol, t) ==
    LET divisor == price * (Den + t)          \* price * (1 + tac), over Den
        buy_shares == Floor(trade_vol, Den * divisor)
        cost == buy_shares * price * (Den + t)
    IN  IF divisor = 0 THEN Raised(c, s)      \* ZeroDivisionError
        ELSE IF ~_is_buy_trade_affordable(buy_shares, cost, c) THEN Result(c, s)
        ELSE Result(c - cost, s + buy_shares)

_is_sell_trade_affordable(s) == s >= 1

\* faulty version: the fee is not deducted from the proceeds
_execute_sell_no_fee(c, price, s, trade_vol, t) ==
    LET divisor == price * (Den - t)
        sell_shares == Min(Floor(trade_vol, Den * divisor), s)
        profit == sell_shares * price * Den
    IN  IF divisor = 0 THEN Raised(c, s)
        ELSE IF ~_is_sell_trade_affordable(s) THEN Result(c, s)
        ELSE Result(c + profit, s - sell_shares)

\* faulty version: the quantity is not capped at the shares held
_execute_sell_uncapped(c, price, s, trade_vol, t) ==
    LET divisor == price * (Den - t)
        sell_shares == Floor(trade_vol, Den * divisor)
        profit == sell_shares * price * (Den - t)
    IN  IF divisor = 0 THEN Raised(c, s)
        ELSE IF ~_is_sell_trade_affordable(s) THEN Result(c, s)
        ELSE Result(c + profit, s - sell_shares)

\* faulty version: a Sell sells one share at least
_execute_sell_at_least_one(c, price, s, trade_vol, t) ==
    LET divisor == price * (Den - t)
        quantity == Floor(trade_vol, Den * divisor)
        sell_shares == Min(IF quantity < 1 THEN 1 ELSE quantity, s)
        profit == sell_shares * price * (Den - t)
    IN  IF divisor = 0 THEN Raised(c, s)
        ELSE IF ~_is_sell_trade_affordable(s) THEN Result(c, s)
        ELSE Result(c + profit, s - sell_shares)

_execute_sell(c, price, s, trade_vol, t) ==
    LET divisor == price * (Den - t)          \* price * (1 - tac), over Den
        sell_shares == Min(Floor(trade_vol, Den * divisor), s)
        profit == sell_shares * price * (Den - t)
    IN  IF divisor = 0 THEN Raised(c, s)      \* ZeroDivisionError
        ELSE IF ~_is_sell_trade_affordable(s) THEN Result(c, s)
        ELSE Result(c + profit, s - sell_shares)

\* faulty version: a Hold is executed as a Buy
_execute_trade_hold_as_buy(signal, c, price, s, trade_vol, t) ==
    IF signal = buy_signal \/ signal = 0
    THEN _execute_buy(c, price, s, trade_vol, t)
    ELSE IF signal = sell_signal THEN _execute_sell(c, price, s, trade_vol, t)
    ELSE Result(c, s)

\* faulty version: every signal but Buy sells
_execute_trade_else_sell(signal, c, price, s, trade_vol, t) ==
    IF signal = buy_signal THEN _execute_buy(c, price, s, trade_vol, t)
    ELSE IF signal # 0 THEN _execute_sell(c, price, s, trade_vol, t)
    ELSE Result(c, s)

_execute_trade(signal, c, price, s, trade_vol, t) ==
    IF signal = buy_signal THEN _execute_buy(c, price, s, trade_vol, t)
    ELSE IF signal = sell_signal THEN _execute_sell(c, price, s, trade_vol, t)
    ELSE Result(c, s)

\* faulty version: assets leave the holdings out
_update_portfolio_cash_only(c, s, price) ==
    LET h == s * price * Den
    IN  [assets |-> c, holdings |-> h]

_update_portfolio(c, s, price) ==
    LET h == s * price * Den
    IN  [assets |-> c + h, holdings |-> h]

\* faulty version: the trade volume values the shares at the bar's own price
BarStep_revalued(price, signal, c, s, a, p, t) ==
    LET trade_vol == p * (c + s * price * Den)
        tr == _execute_trade(signal, c, price, s, trade_vol, t)
        up == _update_portfolio(tr.cash, tr.shares, price)
    IN  [raised |-> tr.raised, trade_vol |-> trade_vol,
         cash |-> tr.cash, shares |-> tr.shares,
         assets |-> up.assets, holdings |-> up.holdings,
         row |-> [price |-> price, signal |-> signal, shares |-> tr.shares,
                  holdings |-> up.holdings, cash |-> tr.cash,
                  assets |-> up.assets]]

\* faulty version: the row's first two fields are swapped
BarStep_swapped_columns(price, signal, c, s, a, p, t) ==
    LET trade_vol == p * a
        tr == _execute_trade(signal, c, price, s, trade_vol, t)
        up == _update_portfolio(tr.cash, tr.shares, price)
    IN  [raised |-> tr.raised, trade_vol |-> trade_vol,
         cash |-> tr.cash, shares |-> tr.shares,
         assets |-> up.assets, holdings |-> up.holdings,
         row |-> [price |-> signal, signal |-> price, shares |-> tr.shares,
                  holdings |-> up.holdings, cash |-> tr.cash,
                  assets |-> up.assets]]

\* One pass of the loop body: trade_vol, the trade, the row.
BarStep(price, signal, c, s, a, p, t) ==
    LET trade_vol == p * a
        tr == _execute_trade(signal, c, price, s, trade_vol, t)
        up == _update_portfolio(tr.cash, tr.shares, price)
    IN  [raised |-> tr.raised, trade_vol |-> trade_vol,
         cash |-> tr.cash, shares |-> tr.shares,
         assets |-> up.assets, holdings |-> up.holdings,
         row |-> [price |-> price, signal |-> signal, shares |-> tr.shares,
                  holdings |-> up.holdings, cash |-> tr.cash,
                  assets |-> up.assets]]

----------------------------------------------------------------------------
\* generate_signals (analysis/generate_signals.py)
\*
\* An argument is <<kind, value>>: a window <<"int", n>>, num_std_dev
\* <<"int", n * Den>> or <<"float", numerator over Den>>; <<"float", 0>> for
\* a window, <<"nan", 0>> and <<"str", 0>> stand for a value of that kind.
\* A keyword argument the method does not take is Unused.
\* Bars are numbered from 1: bar t of the source is index t + 1.

Unused == <<"none", 0>>

upper_cutoff == 70
lower_cutoff == 30

supported_methods == {"bollinger", "macd", "roc", "rsi"}

RECURSIVE SeqSum(_, _, _)
\* sq[a] + ... + sq[b]
SeqSum(sq, a, b) == IF a > b THEN 0 ELSE sq[a] + SeqSum(sq, a + 1, b)

RECURSIVE Pow(_, _)
Pow(b, e) == IF e = 0 THEN 1 ELSE b * Pow(b, e - 1)

Max(a, b) == IF a >= b THEN a ELSE b

\* faulty version: no isinstance check, only the membership test
_validate_input_method_membership_only(m) ==
    IF m[1] # "str" \/ m[2] \notin supported_methods THEN "ValueError"
    ELSE "ok"

_validate_input_method(m) ==
    IF m[1] # "str" THEN "TypeError"
    ELSE IF m[2] \notin supported_methods THEN "ValueError"
    ELSE "ok"

_validate_input_window(w) ==
    IF w[1] # "int" THEN "TypeError"
    ELSE IF w[2] <= 1 THEN "ValueError"
    ELSE "ok"

_validate_input_num_std_dev(k) ==
    IF k[1] \notin {"int", "float", "nan"} THEN "TypeError"
    ELSE IF k[1] # "nan" /\ k[2] <= 0 THEN "ValueError"
    ELSE "ok"

\* faulty version: signal_window = short_window is rejected
_validate_window_relationships_strict(sw, lw, gw) ==
    IF sw[2] >= lw[2] THEN "ValueError"
    ELSE IF gw[2] >= sw[2] THEN "ValueError"
    ELSE "ok"

_validate_window_relationships(sw, lw, gw) ==
    IF sw[2] >= lw[2] THEN "ValueError"
    ELSE IF gw[2] > sw[2] THEN "ValueError"
    ELSE "ok"

_validate_input_bollinger_signals(w, k) ==
    FirstError(<<_validate_input_window(w), _validate_input_num_std_dev(k)>>)

_validate_input_macd_signals(sw, lw, gw) ==
    LET windows == FirstError(<<_validate_input_window(sw),
                                _validate_input_window(lw),
                                _validate_input_window(gw)>>)
    IN  IF windows # "ok" THEN windows
        ELSE _validate_window_relationships(sw, lw, gw)

\* faulty version: the last raw signal wraps round to position 0
shift_roll(sigs) ==
    [t \in 1 .. Len(sigs) |-> IF t = 1 THEN sigs[Len(sigs)] ELSE sigs[t - 1]]

\* faulty version: the signals are returned unshifted
shift_none(sigs) ==
    sigs

\* signals.shift(periods=1, fill_value=0)
shift(sigs) ==
    [t \in 1 .. Len(sigs) |-> IF t = 1 THEN 0 ELSE sigs[t - 1]]

\* Bollinger bands, lines 47-54.  With S and Q the sums of the last w prices
\* and of their squares, the rolling mean is S / w and the rolling sample
\* variance (w * Q - S * S) / (w * (w - 1)); both are NaN before bar w.
\* price < mean - k * std  iff  mean - price > 0 and
\*                              k^2 * variance < (mean - price)^2.
RollingSum(prs, t, w) == SeqSum(prs, t - w + 1, t)
RollingSumSq(prs, t, w) ==
    SeqSum([j \in 1 .. Len(prs) |-> prs[j] * prs[j]], t - w + 1, t)

\* faulty version: the population standard deviation (ddof=0)
BandExceeded_population_std(prs, t, w, k, side) ==
    LET S == RollingSum(prs, t, w)
        Q == RollingSumSq(prs, t, w)
        gap == side * (w * prs[t] - S)
    IN  /\ t >= w
        /\ k[1] # "nan"
        /\ gap > 0
        /\ k[2] * k[2] * w * (w * Q - S * S) < Den * Den * w * gap * gap

BandExceeded(prs, t, w, k, side) ==
    LET S == RollingSum(prs, t, w)
        Q == RollingSumSq(prs, t, w)
        gap == side * (w * prs[t] - S)           \* w * |price - mean|
    IN  /\ t >= w
        /\ k[1] # "nan"
        /\ gap > 0
        /\ k[2] * k[2] * w * (w * Q - S * S) < Den * Den * (w - 1) * gap * gap

BollingerRaw(prs, w, k) ==
    [t \in 1 .. Len(prs) |->
        IF BandExceeded(prs, t, w, k, 1) THEN 1          \* above the upper band
        ELSE IF BandExceeded(prs, t, w, k, 0 - 1) THEN 2 \* below the lower band
        ELSE 0]

\* MACD, lines 77-84.  ewm(span, adjust=False).mean() is y[1] = x[1],
\* y[t] = a * x[t] + (1 - a) * y[t-1] with a = 2 / (span + 1).
\* EmaScaled is y[t] * (span + 1)^(t-1).
RECURSIVE EmaScaled(_, _, _)
EmaScaled(prs, span, t) ==
    IF t = 1 THEN prs[1]
    ELSE 2 * prs[t] * Pow(span + 1, t - 2)
         + (span - 1) * EmaScaled(prs, span, t - 1)

\* macd_line[t] * ((sw + 1) * (lw + 1))^(t-1)
MacdScaled(prs, sw, lw, t) ==
    EmaScaled(prs, sw, t) * Pow(lw + 1, t - 1)
        - EmaScaled(prs, lw, t) * Pow(sw + 1, t - 1)

\* signal_line[t] * ((sw + 1) * (lw + 1) * (gw + 1))^(t-1)
RECURSIVE SignalLineScaled(_, _, _, _, _)
SignalLineScaled(prs, sw, lw, gw, t) ==
    IF t = 1 THEN MacdScaled(prs, sw, lw, 1)
    ELSE 2 * MacdScaled(prs, sw, lw, t) * Pow(gw + 1, t - 2)
         + (gw - 1) * (sw + 1) * (lw + 1)
               * SignalLineScaled(prs, sw, lw, gw, t - 1)

\* faulty version: Buy below the signal line, Sell above it
MacdRaw_inverted(prs, sw, lw, gw) ==
    [t \in 1 .. Len(prs) |->
        LET macd_line == MacdScaled(prs, sw, lw, t) * Pow(gw + 1, t - 1)
            signal_line == SignalLineScaled(prs, sw, lw, gw, t)
        IN  IF macd_line < signal_line THEN 2
            ELSE IF macd_line > signal_line THEN 1
            ELSE 0]

MacdRaw(prs, sw, lw, gw) ==
    [t \in 1 .. Len(prs) |->
        LET macd_line == MacdScaled(prs, sw, lw, t) * Pow(gw + 1, t - 1)
            signal_line == SignalLineScaled(prs, sw, lw, gw, t)
        IN  IF macd_line < signal_line THEN 1
            ELSE IF macd_line > signal_line THEN 2
            ELSE 0]

\* Rate of change, lines 105-109.  pct_change(periods) is
\* x[t] / x[t - periods] - 1: NaN for the first `periods` bars, and by the
\* float division +inf, -inf or NaN when x[t - periods] is 0.
\* The result is the sign of roc: 1, -1, or 0 when roc is 0 or NaN.
RocSign(prs, t, periods) ==
    IF t - periods < 1 THEN 0
    ELSE LET base == prs[t - periods]
             cur == prs[t]
         IN  IF base = 0
             THEN (IF cur > 0 THEN 1 ELSE IF cur < 0 THEN 0 - 1 ELSE 0)
             ELSE IF (cur - base) * base > 0 THEN 1
             ELSE IF (cur - base) * base < 0 THEN 0 - 1
             ELSE 0

\* faulty version: the change over `window` bars, pct_change(periods=window)
RocRaw_window_periods(prs, w) ==
    [t \in 1 .. Len(prs) |->
        LET roc == RocSign(prs, t, w)
        IN  IF roc < 0 THEN 1 ELSE IF roc > 0 THEN 2 ELSE 0]

RocRaw(prs, w) ==
    [t \in 1 .. Len(prs) |->
        LET roc == RocSign(prs, t, w - 1)
        IN  IF roc < 0 THEN 1 ELSE IF roc > 0 THEN 2 ELSE 0]

\* RSI, lines 130-144.  delta[1] is NaN, so gain[1] = loss[1] = 0; the
\* rolling means with min_periods=1 run over the last Min(w, t) bars, and
\* avg_gain / avg_loss is the quotient of the two sums.
Gain(prs, t) == IF t > 1 /\ prs[t] - prs[t - 1] > 0 THEN prs[t] - prs[t - 1] ELSE 0
Loss(prs, t) == IF t > 1 /\ prs[t] - prs[t - 1] < 0 THEN prs[t - 1] - prs[t] ELSE 0

GainSum(prs, t, w) ==
    SeqSum([j \in 1 .. Len(prs) |-> Gain(prs, j)], Max(1, t - w + 1), t)
LossSum(prs, t, w) ==
    SeqSum([j \in 1 .. Len(prs) |-> Loss(prs, j)], Max(1, t - w + 1), t)

\* faulty version: no gain and no loss gives rs = 0
RelativeStrength_zero_on_no_change(g, l) ==
    IF l # 0 THEN [kind |-> "num", g |-> g, l |-> l]
    ELSE IF g > 0 THEN [kind |-> "inf", g |-> g, l |-> l]
    ELSE [kind |-> "num", g |-> 0, l |-> 1]

\* faulty version: a zero average loss gives an undefined rs
RelativeStrength_undefined_on_zero_loss(g, l) ==
    IF l # 0 THEN [kind |-> "num", g |-> g, l |-> l]
    ELSE [kind |-> "nan", g |-> g, l |-> l]

\* rs = avg_gain / avg_loss as a float: a number g / l, +inf or NaN
RelativeStrength(g, l) ==
    IF l # 0 THEN [kind |-> "num", g |-> g, l |-> l]
    ELSE IF g > 0 THEN [kind |-> "inf", g |-> g, l |-> l]
    ELSE [kind |-> "nan", g |-> g, l |-> l]

\* rsi = 100 - 100 / (1 + rs) compared with a cutoff: -1, 0 or 1 for
\* below, equal and above; "nan" when rsi is NaN.  For a number rs = g / l
\* rsi is 100 * g / (g + l); for rs = +inf it is 100.
RsiVersus(rs, cutoff) ==
    IF rs.kind = "nan" THEN "nan"
    ELSE LET num == IF rs.kind = "inf" THEN 100 ELSE 100 * rs.g
             den == IF rs.kind = "inf" THEN 1 ELSE rs.g + rs.l
         IN  IF num < cutoff * den THEN "below"
             ELSE IF num > cutoff * den THEN "above"
             ELSE "equal"

RsiRaw(prs, w) ==
    [t \in 1 .. Len(prs) |->
        LET rs == RelativeStrength(GainSum(prs, t, w), LossSum(prs, t, w))
        IN  IF RsiVersus(rs, upper_cutoff) = "above" THEN 1
            ELSE IF RsiVersus(rs, lower_cutoff) = "below" THEN 2
            ELSE 0]

\* the keyword arguments' check of the method dispatched to
ValidateKwargs(a) ==
    CASE a.method[2] = "bollinger" ->
             _validate_input_bollinger_signals(a.window, a.num_std_dev)
      [] a.method[2] = "macd" ->
             _validate_input_macd_signals(a.short_window, a.long_window,
                                          a.signal_window)
      [] OTHER -> _validate_input_window(a.window)

\* the indicator and the signals before the shift
RawSignals(prs, a) ==
    CASE a.method[2] = "bollinger" ->
             BollingerRaw(prs, a.window[2], a.num_std_dev)
      [] a.method[2] = "macd" ->
             MacdRaw(prs, a.short_window[2], a.long_window[2],
                     a.signal_window[2])
      [] a.method[2] = "roc" -> RocRaw(prs, a.window[2])
      [] a.method[2] = "rsi" -> RsiRaw(prs, a.window[2])

\* the whole call: the error raised, or the signals returned
generate_signals(prs, a) ==
    LET e == _validate_input_method(a.method)
    IN  IF e # "ok" THEN [err |-> e, signals |-> <<>>]
        ELSE IF ValidateKwargs(a) # "ok"
        THEN [err |-> ValidateKwargs(a), signals |-> <<>>]
        ELSE [err |-> "ok", signals |-> shift(RawSignals(prs, a))]

\* no call of generate_signals
GenIdle ==
    /\ args = [method |-> Unused, window |-> Unused, num_std_dev |-> Unused,
               short_window |-> Unused, long_window |-> Unused,
               signal_window |-> Unused]
    /\ gpc = "idle"
    /\ gerr = "none"
    /\ raw = <<>>
    /\ runs = <<>>
    /\ plot = <<>>

----------------------------------------------------------------------------
\* The run

\* before the call: nothing validated, no local assigned
SimStart ==
    /\ pc = "start"
    /\ err = "none"
    /\ cash = 0
    /\ shares = 0
    /\ holdings = 0
    /\ assets = 0
    /\ portfolio = <<>>
    /\ trade_vols = <<>>

Init ==
    /\ variant \in Variants
    /\ prices \in SeqsUpTo(PriceVals, MaxLen)
    /\ signals \in SeqsUpTo(SignalVals, MaxLen)
    /\ initial_cash \in CashVals
    /\ tac \in TacVals
    /\ trade_pct \in PctVals
    /\ kinds = [initial_cash |-> "int", tac |-> "float", trade_pct |-> "float"]
    /\ SimStart
    /\ GenIdle

\* _validate_backtest_signals_input, then the initialisation of the loop
Validate ==
    /\ pc = "start"
    /\ LET v == IF variant = "backtest"
                THEN _validate_backtest_signals_input(
                         kinds, initial_cash, tac, trade_pct)
                ELSE analysis_validate_backtest_signals_input(
                         signals, prices, kinds, initial_cash, tac, trade_pct)
       IN  IF v # "ok"
           THEN /\ pc' = "error"
                /\ err' = v
                /\ UNCHANGED <<cash, shares, holdings, assets>>
           ELSE /\ pc' = "loop"
                /\ err' = "none"
                /\ cash' = initial_cash
                /\ holdings' = 0
                /\ shares' = 0
                /\ assets' = initial_cash + 0
    /\ UNCHANGED <<inputs, portfolio, trade_vols, genvars>>

\* zip(prices, signals, strict=False) has a next pair
ZipHasNext == Len(portfolio) < Min(Len(prices), Len(signals))

\* one iteration of the loop
Step ==
    /\ pc = "loop"
    /\ ZipHasNext
    /\ LET k == Len(portfolio) + 1
           b == BarStep(prices[k], signals[k], cash, shares, assets,
                        trade_pct, tac)
       IN  IF b.raised
           THEN /\ pc' = "error"
                /\ err' = "ZeroDivisionError"
                /\ UNCHANGED <<cash, shares, holdings, assets, portfolio,
                               trade_vols>>
           ELSE IF /\ kinds.initial_cash = "nan"
                   /\ signals[k] \in {buy_signal, sell_signal}
           THEN \* trade_vol is NaN: math.floor raises
                /\ pc' = "error"
                /\ err' = "ValueError"
                /\ UNCHANGED <<cash, shares, holdings, assets, portfolio,
                               trade_vols>>
           ELSE /\ pc' = "loop"
                /\ err' = "none"
                /\ cash' = b.cash
                /\ shares' = b.shares
                /\ assets' = b.assets
                /\ holdings' = b.holdings
                /\ portfolio' = Append(portfolio, b.row)
                /\ trade_vols' = Append(trade_vols, b.trade_vol)
    /\ UNCHANGED <<inputs, genvars>>

\* pd.DataFrame(portfolio, columns=..., index=data.index): the rows must
\* be as many as the index entries
Finish ==
    /\ pc = "loop"
    /\ ~ZipHasNext
    /\ IF Len(portfolio) # Len(prices)
       THEN pc' = "error" /\ err' = "ValueError"
       ELSE pc' = "done" /\ err' = "none"
    /\ UNCHANGED <<inputs, cash, shares, holdings, assets, portfolio,
                   trade_vols, genvars>>

Next == Validate \/ Step \/ Finish

Spec == Init /\ [][Next]_vars

\* Runs over arguments of every kind, in and out of range, as <<kind,
\* numerator>>; an "int" has a whole value.
CashArgs ==
    ({"int"} \X {0 - Den, 0, 2 * Den})
        \cup ({"float"} \X {0 - 1, 0, 1, 2 * Den})
        \cup {<<"nan", 0>>, <<"str", 0>>}
TacArgs ==
    ({"int"} \X {0 - Den, 0, Den, 2 * Den})
        \cup ({"float"} \X {0 - 1, 0, 1, Den, Den + 1})
        \cup {<<"nan", 0>>, <<"str", 0>>}
PctArgs ==
    ({"int"} \X {0, Den})
        \cup ({"float"} \X {0 - 1, 0, 1, Den, Den + 1})
        \cup {<<"nan", 0>>, <<"str", 0>>}

InitParams ==
    /\ variant \in Variants
    /\ prices \in {<<1>>, <<1, 2>>}
    /\ signals \in {<<0>>, <<2, 1>>, <<0, 3>>}
    /\ \E c \in CashArgs, t \in TacArgs, p \in PctArgs :
        /\ initial_cash = c[2]
        /\ tac = t[2]
        /\ trade_pct = p[2]
        /\ kinds = [initial_cash |-> c[1], tac |-> t[1], trade_pct |-> p[1]]
    /\ SimStart
    /\ GenIdle

SpecParams == InitParams /\ [][Next]_vars

----------------------------------------------------------------------------
\* Calls of generate_signals(data, method, **kwargs)

GenMaxLen == 4
GenPriceVals == 0 .. 2

WindowArgs ==
    {<<"int", w>> : w \in 1 .. 4} \cup {<<"float", 0>>, <<"str", 0>>}

NumStdDevArgs ==
    {<<"int", Den>>, <<"float", Den \div 2>>, <<"float", 0>>,
     <<"int", 0 - Den>>, <<"nan", 0>>, <<"str", 0>>}

MethodArgs ==
    {<<"str", m>> : m \in supported_methods \cup {"", "Bollinger", "sma"}}
        \cup {<<"int", "">>, <<"NoneType", "">>}

\* the keyword arguments each method is called with
KwargsOf(m) ==
    CASE m[2] = "bollinger" ->
             {[method |-> m, window |-> w, num_std_dev |-> k,
               short_window |-> Unused, long_window |-> Unused,
               signal_window |-> Unused] :
                  w \in WindowArgs, k \in NumStdDevArgs}
      [] m[2] = "macd" ->
             {[method |-> m, window |-> Unused, num_std_dev |-> Unused,
               short_window |-> sw, long_window |-> lw,
               signal_window |-> gw] :
                  sw \in WindowArgs, lw \in WindowArgs, gw \in WindowArgs}
      [] OTHER ->
             {[method |-> m, window |-> w, num_std_dev |-> Unused,
               short_window |-> Unused, long_window |-> Unused,
               signal_window |-> Unused] : w \in WindowArgs}

\* no backtest is running
SimIdle ==
    /\ variant = "analysis"
    /\ initial_cash = 2 * Den
    /\ tac = 0
    /\ trade_pct = Den
    /\ kinds = [initial_cash |-> "int", tac |-> "float", trade_pct |-> "float"]
    /\ pc = "idle"
    /\ err = "none"
    /\ cash = 0
    /\ shares = 0
    /\ holdings = 0
    /\ assets = 0
    /\ portfolio = <<>>
    /\ trade_vols = <<>>

InitSignals ==
    /\ prices \in SeqsUpTo(GenPriceVals, GenMaxLen) \ {<<>>}
    /\ signals = <<>>
    /\ \E m \in MethodArgs : args \in KwargsOf(m)
    /\ gpc = "start"
    /\ gerr = "none"
    /\ raw = <<>>
    /\ runs = <<>>
    /\ plot = <<>>
    /\ SimIdle

\* line 17
ValidateMethod ==
    /\ gpc = "start"
    /\ LET e == _validate_input_method(args.method)
       IN  IF e # "ok"
           THEN gpc' = "error" /\ gerr' = e
           ELSE gpc' = "dispatch" /\ gerr' = gerr
    /\ UNCHANGED <<prices, signals, args, raw, runs, plot, simvars>>

\* lines 45, 75, 103, 128: the method's check of its keyword arguments
ValidateInput ==
    /\ gpc = "dispatch"
    /\ LET e == ValidateKwargs(args)
       IN  IF e # "ok"
           THEN gpc' = "error" /\ gerr' = e
           ELSE gpc' = "compute" /\ gerr' = gerr
    /\ UNCHANGED <<prices, signals, args, raw, runs, plot, simvars>>

\* lines 47-54, 77-84, 105-109, 130-144: the indicator and the raw signals
ComputeSignals ==
    /\ gpc = "compute"
    /\ raw' = RawSignals(prices, args)
    /\ gpc' = "shift"
    /\ UNCHANGED <<prices, signals, args, gerr, runs, plot, simvars>>

\* lines 56, 86, 111, 146: the shift, and the return
ShiftSignals ==
    /\ gpc = "shift"
    /\ signals' = shift(raw)
    /\ gpc' = "done"
    /\ UNCHANGED <<prices, args, gerr, raw, runs, plot, simvars>>

NextSignals ==
    ValidateMethod \/ ValidateInput \/ ComputeSignals \/ ShiftSignals

SpecSignals == InitSignals /\ [][NextSignals]_vars

----------------------------------------------------------------------------
\* Two calls of backtest_signals at once, their iterations interleaved.
\* Every variable of backtest_signals is local to the call: runs[r] holds
\* the arguments and the locals of call r.

TwoPrices == {<<1, 2>>, <<2, 1>>}

RunArgs ==
    {[prices |-> p, signals |-> g, initial_cash |-> c, tac |-> t,
      trade_pct |-> q] :
        p \in TwoPrices, g \in [1 .. 2 -> {0, 1, 2}], c \in CashVals,
        t \in {0, Den \div 2}, q \in PctVals}

ArgsOf(run) ==
    [prices |-> run.prices, signals |-> run.signals,
     initial_cash |-> run.initial_cash, tac |-> run.tac,
     trade_pct |-> run.trade_pct]

\* a call entered, nothing executed
NewRun(a) ==
    [prices |-> a.prices, signals |-> a.signals,
     initial_cash |-> a.initial_cash, tac |-> a.tac,
     trade_pct |-> a.trade_pct, pc |-> "start", cash |-> 0, shares |-> 0,
     holdings |-> 0, assets |-> 0, portfolio |-> <<>>]

InitTwo ==
    /\ runs \in [1 .. 2 -> {NewRun(a) : a \in RunArgs}]
    /\ prices = <<>>
    /\ signals = <<>>
    /\ SimIdle
    /\ args = [method |-> Unused, window |-> Unused, num_std_dev |-> Unused,
               short_window |-> Unused, long_window |-> Unused,
               signal_window |-> Unused]
    /\ gpc = "idle"
    /\ gerr = "none"
    /\ raw = <<>>
    /\ plot = <<>>

\* faulty version: the initialisation resets the locals of both calls
ValidateRun_resets_all(r) ==
    /\ runs[r].pc = "start"
    /\ LET run == runs[r]
           v == _validate_backtest_signals_input(
                    kinds, run.initial_cash, run.tac, run.trade_pct)
           reset(o) == [o EXCEPT !.cash = run.initial_cash, !.holdings = 0,
                                 !.shares = 0, !.assets = run.initial_cash + 0]
       IN  runs' = IF v # "ok"
                   THEN [runs EXCEPT ![r].pc = "error"]
                   ELSE [o \in 1 .. 2 |->
                           IF o = r THEN [reset(runs[o]) EXCEPT !.pc = "loop"]
                           ELSE reset(runs[o])]
    /\ UNCHANGED <<prices, signals, simvars, args, gpc, gerr, raw, plot>>

\* lines 33-38 of call r
ValidateRun(r) ==
    /\ runs[r].pc = "start"
    /\ LET run == runs[r]
           v == _validate_backtest_signals_input(
                    kinds, run.initial_cash, run.tac, run.trade_pct)
       IN  runs' = IF v # "ok"
                   THEN [runs EXCEPT ![r].pc = "error"]
                   ELSE [runs EXCEPT ![r].pc = "loop",
                                     ![r].cash = run.initial_cash,
                                     ![r].holdings = 0,
                                     ![r].shares = 0,
                                     ![r].assets = run.initial_cash + 0]
    /\ UNCHANGED <<prices, signals, simvars, args, gpc, gerr, raw, plot>>

RunHasNext(run) ==
    Len(run.portfolio) < Min(Len(run.prices), Len(run.signals))

\* faulty version: cash is one variable of the module, read by every call
StepRun_global_cash(r) ==
    /\ runs[r].pc = "loop"
    /\ RunHasNext(runs[r])
    /\ LET run == runs[r]
           k == Len(run.portfolio) + 1
           b == BarStep(run.prices[k], run.signals[k], runs[1].cash,
                        run.shares, run.assets, run.trade_pct, run.tac)
       IN  runs' = IF b.raised
                   THEN [runs EXCEPT ![r].pc = "error"]
                   ELSE [runs EXCEPT ![r].cash = b.cash,
                                     ![r].shares = b.shares,
                                     ![r].assets = b.assets,
                                     ![r].holdings = b.holdings,
                                     ![r].portfolio = Append(run.portfolio, b.row)]
    /\ UNCHANGED <<prices, signals, simvars, args, gpc, gerr, raw, plot>>

\* lines 40-44 of call r: one iteration of its loop
StepRun(r) ==
    /\ runs[r].pc = "loop"
    /\ RunHasNext(runs[r])
    /\ LET run == runs[r]
           k == Len(run.portfolio) + 1
           b == BarStep(run.prices[k], run.signals[k], run.cash, run.shares,
                        run.assets, run.trade_pct, run.tac)
       IN  runs' = IF b.raised
                   THEN [runs EXCEPT ![r].pc = "error"]
                   ELSE [runs EXCEPT ![r].cash = b.cash,
                                     ![r].shares = b.shares,
                                     ![r].assets = b.assets,
                                     ![r].holdings = b.holdings,
                                     ![r].portfolio = Append(run.portfolio, b.row)]
    /\ UNCHANGED <<prices, signals, simvars, args, gpc, gerr, raw, plot>>

\* lines 46-51 of call r
FinishRun(r) ==
    /\ runs[r].pc = "loop"
    /\ ~RunHasNext(runs[r])
    /\ runs' = [runs EXCEPT ![r].pc =
                   IF Len(runs[r].portfolio) # Len(runs[r].prices)
                   THEN "error" ELSE "done"]
    /\ UNCHANGED <<prices, signals, simvars, args, gpc, gerr, raw, plot>>

NextTwo == \E r \in 1 .. 2 : ValidateRun(r) \/ StepRun(r) \/ FinishRun(r)

SpecTwo == InitTwo /\ [][NextTwo]_vars

----------------------------------------------------------------------------
\* Properties

Rows == 1 .. Len(portfolio)

\* cash, shares and assets before bar k's trade
PrevCash(k) == IF k = 1 THEN initial_cash ELSE portfolio[k - 1].cash
PrevShares(k) == IF k = 1 THEN 0 ELSE portfolio[k - 1].shares
PrevAssets(k) == IF k = 1 THEN initial_cash ELSE portfolio[k - 1].assets

Unchanged(k) ==
    /\ portfolio[k].cash = PrevCash(k)
    /\ portfolio[k].shares = PrevShares(k)

ValidParams ==
    /\ initial_cash > 0
    /\ 0 <= tac /\ tac <= Den
    /\ 0 < trade_pct /\ trade_pct <= Den

SignalsInRange == \A k \in 1 .. Len(signals) : signals[k] \in {0, 1, 2}

PositivePrices == \A k \in 1 .. Len(prices) : prices[k] > 0

\* C1: in every row holdings = shares x price and assets = cash + holdings.
C1_RowIdentity ==
    \A k \in Rows :
        /\ portfolio[k].holdings = portfolio[k].shares * portfolio[k].price * Den
        /\ portfolio[k].assets = portfolio[k].cash + portfolio[k].holdings

\* a row holding shares and cash at once, so that both terms of assets count
C1_Witness ==
    \E k \in Rows :
        /\ portfolio[k].shares > 0
        /\ portfolio[k].cash > 0
        /\ portfolio[k].price > 1

\* C2 as stated: with valid parameters and signals over {0,1,2}, over every
\* numeric price series, every row has shares >= 0 and cash >= 0.
C2_AnyPrices ==
    (ValidParams /\ SignalsInRange) =>
        \A k \in Rows : portfolio[k].shares >= 0 /\ portfolio[k].cash >= 0

\* C2 amended: the same over every series of strictly positive prices.
C2_PositivePrices ==
    (ValidParams /\ SignalsInRange /\ PositivePrices) =>
        \A k \in Rows : portfolio[k].shares >= 0 /\ portfolio[k].cash >= 0

\* a finished run on positive prices that bought with all its cash and then
\* was asked to buy again
C2_Witness ==
    /\ pc = "done"
    /\ ValidParams /\ SignalsInRange /\ PositivePrices
    /\ \E k \in Rows :
        /\ k > 1
        /\ signals[k] = buy_signal
        /\ signals[k - 1] = buy_signal
        /\ portfolio[k - 1].cash = 0
        /\ portfolio[k - 1].shares > 0

BuyQuantity(k) == Floor(trade_vols[k], Den * prices[k] * (Den + tac))
SellQuantity(k) == Floor(trade_vols[k], Den * prices[k] * (Den - tac))

\* C4: on a Buy at a positive price, buy_shares = floor(trade_volume /
\* (price x (1 + cost_rate))); the buy executes iff buy_shares >= 1 and cash
\* covers buy_shares x price x (1 + cost_rate), moving exactly that cost and
\* that many shares; otherwise cash and shares stay as they were.
C4_Buy ==
    \A k \in Rows :
        (signals[k] = buy_signal /\ prices[k] > 0) =>
            LET buy_shares == trade_vols[k] \div (Den * prices[k] * (Den + tac))
                cost == buy_shares * prices[k] * (Den + tac)
            IN  IF buy_shares >= 1 /\ PrevCash(k) >= cost
                THEN /\ portfolio[k].cash = PrevCash(k) - cost
                     /\ portfolio[k].shares = PrevShares(k) + buy_shares
                ELSE Unchanged(k)

\* a buy that executed, followed by a buy of one share or more that the
\* cash left does not cover
C4_Witness ==
    \E k \in Rows :
        /\ k > 1
        /\ signals[k - 1] = buy_signal /\ prices[k - 1] > 0
        /\ portfolio[k - 1].shares > PrevShares(k - 1)
        /\ signals[k] = buy_signal /\ prices[k] > 0
        /\ BuyQuantity(k) >= 1
        /\ PrevCash(k) > 0
        /\ PrevCash(k) < BuyQuantity(k) * prices[k] * (Den + tac)
        /\ Unchanged(k)

\* C5: on a Sell at a positive price with cost_rate < 1 the shares sold are
\* min(floor(trade_volume / (price x (1 - cost_rate))), shares), never more
\* than held; with shares >= 1 cash grows by sold x price x (1 - cost_rate)
\* and shares drop by sold; with shares = 0 nothing changes.
C5_Sell ==
    \A k \in Rows :
        (signals[k] = sell_signal /\ prices[k] > 0 /\ tac < Den) =>
            LET quantity == trade_vols[k] \div (Den * prices[k] * (Den - tac))
                sold == IF quantity <= PrevShares(k) THEN quantity
                        ELSE PrevShares(k)
            IN  /\ sold <= PrevShares(k)
                /\ PrevShares(k) >= 1 =>
                       /\ portfolio[k].cash =
                              PrevCash(k) + sold * prices[k] * (Den - tac)
                       /\ portfolio[k].shares = PrevShares(k) - sold
                /\ PrevShares(k) = 0 => Unchanged(k)

\* a Sell whose quantity exceeds the shares held and sells them all, after
\* an earlier Sell with no shares held
C5_Witness ==
    /\ \E k \in Rows :
        /\ signals[k] = sell_signal /\ prices[k] > 0 /\ tac < Den
        /\ PrevShares(k) >= 1
        /\ SellQuantity(k) > PrevShares(k)
        /\ portfolio[k].shares = 0
        /\ portfolio[k].cash > PrevCash(k)
    /\ \E k \in Rows :
        /\ signals[k] = sell_signal /\ prices[k] > 0 /\ tac < Den
        /\ PrevShares(k) = 0

\* C6: a Hold, and every signal other than Buy and Sell, leaves cash and
\* shares as they were.
C6_HoldNoOp ==
    \A k \in Rows :
        (signals[k] # buy_signal /\ signals[k] # sell_signal) => Unchanged(k)

\* a Hold and a signal 3, both with shares held and a trade volume that
\* would buy or sell
C6_Witness ==
    /\ \E k \in Rows :
        /\ signals[k] = 0
        /\ PrevShares(k) >= 1 /\ PrevCash(k) > 0 /\ trade_vols[k] > 0
    /\ \E k \in Rows :
        /\ signals[k] = 3
        /\ PrevShares(k) >= 1 /\ PrevCash(k) > 0 /\ trade_vols[k] > 0

\* C7: a Buy or Sell whose share quantity floors to 0 leaves cash and
\* shares as they were.
C7_ZeroQuantity ==
    \A k \in Rows :
        /\ (signals[k] = buy_signal /\ BuyQuantity(k) = 0) => Unchanged(k)
        /\ (signals[k] = sell_signal /\ SellQuantity(k) = 0) => Unchanged(k)

\* a Buy of quantity 0 with cash at hand, and a Sell of quantity 0 with
\* shares held
C7_Witness ==
    /\ \E k \in Rows :
        /\ signals[k] = buy_signal /\ BuyQuantity(k) = 0
        /\ PrevCash(k) > 0 /\ trade_vols[k] > 0
    /\ \E k \in Rows :
        /\ signals[k] = sell_signal /\ SellQuantity(k) = 0
        /\ PrevShares(k) >= 1 /\ trade_vols[k] > 0

ValidInput == ValidParams /\ SignalsInRange /\ Len(signals) = Len(prices)

SignalsPass ==
    variant = "backtest" \/ (SignalsInRange /\ Len(signals) = Len(prices))

\* the parameters in their types and ranges (a NaN is in no range)
CashInRange == kinds.initial_cash \in {"int", "float"} /\ initial_cash > 0
TacInRange == kinds.tac \in {"int", "float"} /\ 0 <= tac /\ tac <= Den
PctInRange == kinds.trade_pct = "float" /\ 0 < trade_pct /\ trade_pct <= Den

\* the error of one parameter: its type first, then its range
ParamError(typeOK, inRange) ==
    IF ~typeOK THEN "TypeError" ELSE IF ~inRange THEN "ValueError" ELSE "ok"

\* C11: initial_cash is accepted exactly when > 0, cost_rate exactly when in
\* [0,1], trade_pct exactly when in (0,1]; a value out of range raises
\* before any bar is simulated, and a wrong type is reported before the
\* range is looked at.
C11_ParameterRanges ==
    [][(pc = "start" /\ SignalsPass) =>
        LET e1 == ParamError(kinds.initial_cash # "str", CashInRange)
            e2 == ParamError(kinds.tac # "str", TacInRange)
            e3 == ParamError(kinds.trade_pct \in {"float", "nan"}, PctInRange)
            e == IF e1 # "ok" THEN e1 ELSE IF e2 # "ok" THEN e2 ELSE e3
        IN  /\ (pc' = "loop") <=> (e = "ok")
            /\ (pc' # "loop") =>
                   (pc' = "error" /\ err' = e /\ portfolio' = <<>>)
      ]_vars

----------------------------------------------------------------------------
\* Properties of generate_signals

Hold == 0

Returned == gpc = "done"

\* the bars on which two price series of one length agree from the start:
\* the largest n with a[t] = b[t] for all t <= n
CommonPrefix(a, b) ==
    CHOOSE n \in 0 .. Len(a) :
        /\ \A t \in 1 .. n : a[t] = b[t]
        /\ n = Len(a) \/ a[n + 1] # b[n + 1]

\* C12: no look-ahead.  For the method and keyword arguments of the call and
\* every price series of the same length as the one passed, the signals
\* generate_signals returns for the two series are equal at every bar up to
\* and including the first bar on which the series differ: the signal at
\* bar i is a function of the prices of bars 0 .. i-1.
C12_NoLookAhead ==
    Returned =>
        \A other \in [1 .. Len(prices) -> GenPriceVals] :
            LET theirs == generate_signals(other, args).signals
            IN  \A i \in 1 .. Min(Len(prices), CommonPrefix(prices, other) + 1) :
                    theirs[i] = signals[i]

\* a returned series whose last signal is not Hold: changing the last price
\* changes the indicator of the last bar, and no returned signal
C12_Witness ==
    /\ Returned
    /\ Len(prices) >= 3
    /\ signals[Len(signals)] # Hold
    /\ \E other \in [1 .. Len(prices) -> GenPriceVals] :
        /\ CommonPrefix(prices, other) = Len(prices) - 1
        /\ RawSignals(other, args) # raw

\* C13: the returned series has the length of the price series, Hold at
\* position 0, and at every later position the raw signal of the bar before.
C13_ShiftByOne ==
    Returned =>
        /\ Len(raw) = Len(prices)
        /\ Len(signals) = Len(prices)
        /\ signals[1] = Hold
        /\ \A i \in 2 .. Len(prices) : signals[i] = raw[i - 1]

\* the raw signal of the last bar is not Hold, and is discarded
C13_Witness ==
    /\ Returned
    /\ Len(prices) >= 2
    /\ raw[Len(raw)] # Hold
    /\ signals[Len(signals)] # raw[Len(raw)]

\* the method called, once its raw signals are computed
Computed(m) == gpc \in {"shift", "done"} /\ args.method[2] = m

Buy == 2
Sell == 1

\* the last w prices ending at bar t
LastPrices(t, w) == [j \in 1 .. w |-> prices[t - w + j]]

\* With xs the last w prices, S their sum, m = S / w their mean and
\* s^2 = sum((x - m)^2) / (w - 1) their sample variance:
\*   w^2 * (w - 1) * s^2 = SqDev = sum((w * x - S)^2),
\* and for k = kn / Den > 0
\*   price < m - k * s  iff  S - w * price > 0 and
\*                           kn^2 * SqDev < Den^2 * (w - 1) * (S - w * price)^2,
\*   price > m + k * s  iff  w * price - S > 0 and the same inequality.
\* No comparison with a NaN band holds.
SqDev(xs) ==
    LET S == SeqSum(xs, 1, Len(xs))
        d == [j \in 1 .. Len(xs) |-> (Len(xs) * xs[j] - S) * (Len(xs) * xs[j] - S)]
    IN  SeqSum(d, 1, Len(xs))

BeyondBand(t, w, k, gap) ==
    /\ k[1] # "nan"
    /\ gap > 0
    /\ k[2] * k[2] * SqDev(LastPrices(t, w)) < Den * Den * (w - 1) * gap * gap

\* C14: Bollinger.  The raw signal at bar t is Hold for the first window-1
\* bars; from then on it is Buy iff price_t < m - k*s, Sell iff
\* price_t > m + k*s, and Hold otherwise, with m and s the mean and sample
\* standard deviation of the last `window` prices.
C14_Bollinger ==
    Computed("bollinger") =>
        \A t \in 1 .. Len(prices) :
            LET w == args.window[2]
                k == args.num_std_dev
                S == SeqSum(LastPrices(t, w), 1, w)
            IN  IF t < w THEN raw[t] = Hold
                ELSE /\ raw[t] = Buy <=> BeyondBand(t, w, k, S - w * prices[t])
                     /\ raw[t] = Sell <=> BeyondBand(t, w, k, w * prices[t] - S)
                     /\ raw[t] \in {Hold, Buy, Sell}

\* a window of 3 with one bar above the upper band, one below the lower band
\* and one inside; the first two bars have no bands
C14_Witness ==
    /\ Computed("bollinger")
    /\ args.window[2] = 3
    /\ Len(prices) >= 4
    /\ \E t1, t2 \in 3 .. Len(prices) : raw[t1] = Buy /\ raw[t2] = Sell
    /\ raw[1] = Hold /\ raw[2] = Hold

\* The recursion ema_0 = x_0, ema_t = a * x_t + (1 - a) * ema_{t-1} with
\* a = 2 / (span + 1), unrolled:
\*   ema_t = (1 - a)^t * x_0 + a * sum over 1 <= j <= t of (1 - a)^(t-j) * x_j.
\* Ema(x, span, t) is that value times (span + 1)^(t-1), bars counted from 1.
Ema(x, span, t) ==
    Pow(span - 1, t - 1) * x[1]
    + 2 * SeqSum([j \in 1 .. Len(x) |->
                     IF j < 2 \/ j > t THEN 0
                     ELSE Pow(span - 1, t - j) * Pow(span + 1, j - 2) * x[j]],
                 2, t)

\* macd_line on one denominator: macd_line[t] * ((sw + 1) * (lw + 1))^(n-1)
\* for a series of n bars
MacdLine(sw, lw) ==
    LET n == Len(prices)
    IN  [t \in 1 .. n |->
            (Ema(prices, sw, t) * Pow(lw + 1, t - 1)
                - Ema(prices, lw, t) * Pow(sw + 1, t - 1))
            * Pow((sw + 1) * (lw + 1), n - t)]

\* C15: MACD.  With macd_line = EMA_short(price) - EMA_long(price) and
\* signal_line = EMA_signal(macd_line), the raw signal at bar t is Buy iff
\* macd_line_t > signal_line_t, Sell iff macd_line_t < signal_line_t, and
\* Hold otherwise.
C15_Macd ==
    Computed("macd") =>
        LET gw == args.signal_window[2]
            macd_line == MacdLine(args.short_window[2], args.long_window[2])
        IN  \A t \in 1 .. Len(prices) :
                LET macd_t == macd_line[t] * Pow(gw + 1, t - 1)
                    signal_t == Ema(macd_line, gw, t)
                IN  /\ raw[t] = Buy <=> macd_t > signal_t
                    /\ raw[t] = Sell <=> macd_t < signal_t
                    /\ raw[t] = Hold <=> macd_t = signal_t

\* a series that rises and falls: Buy, Sell and Hold all occur
C15_Witness ==
    /\ Computed("macd")
    /\ Len(prices) >= 4
    /\ \E t1, t2 \in 2 .. Len(prices) : raw[t1] = Buy /\ raw[t2] = Sell
    /\ raw[1] = Hold

\* a call of the MACD method with three integer windows, checked
MacdChecked ==
    /\ args.method[2] = "macd"
    /\ gpc \notin {"start", "dispatch"}
    /\ \A w \in {args.short_window, args.long_window, args.signal_window} :
           w[1] = "int"

Failed(e) == gpc = "error" /\ gerr = e /\ raw = <<>> /\ signals = <<>>

\* C16: MACD with integer windows fails with a ValueError, nothing computed,
\* whenever short_window >= long_window or signal_window > short_window, and
\* is accepted whenever the three windows are > 1, short_window < long_window
\* and signal_window <= short_window.
C16_WindowRelationships ==
    MacdChecked =>
        LET sw == args.short_window[2]
            lw == args.long_window[2]
            gw == args.signal_window[2]
        IN  /\ (sw >= lw \/ gw > sw) => Failed("ValueError")
            /\ (sw > 1 /\ lw > 1 /\ gw > 1 /\ sw < lw /\ gw <= sw)
                   => gpc \in {"compute", "shift", "done"}

\* windows > 1 with short < long, rejected only for signal > short
C16_Witness ==
    /\ MacdChecked
    /\ args.short_window[2] > 1
    /\ args.short_window[2] < args.long_window[2]
    /\ args.signal_window[2] > args.short_window[2]
    /\ Failed("ValueError")

\* C17: ROC.  The raw signal is Hold for the first window-1 bars; from then
\* on, with base the price window-1 bars back (not 0), it is Buy iff the
\* percent change (price_t - base) / base is positive, Sell iff it is
\* negative, and Hold iff it is zero.
C17_Roc ==
    Computed("roc") =>
        \A t \in 1 .. Len(prices) :
            LET back == args.window[2] - 1
            IN  IF t <= back THEN raw[t] = Hold
                ELSE LET base == prices[t - back]
                         change == (prices[t] - base) * base  \* pct * base^2
                     IN  base # 0 =>
                             /\ raw[t] = Buy <=> change > 0
                             /\ raw[t] = Sell <=> change < 0
                             /\ raw[t] = Hold <=> change = 0

\* window 3: a rise and a fall over two bars, from a price that is not 0
C17_Witness ==
    /\ Computed("roc")
    /\ args.window[2] = 3
    /\ \E t1, t2 \in 3 .. Len(prices) :
        /\ prices[t1 - 2] # 0 /\ raw[t1] = Buy
        /\ prices[t2 - 2] # 0 /\ raw[t2] = Sell
    /\ raw[1] = Hold /\ raw[2] = Hold

\* the rise and the fall of the price at bar t; none at the first bar
Rise(t) == IF t >= 2 /\ prices[t] > prices[t - 1] THEN prices[t] - prices[t - 1] ELSE 0
Fall(t) == IF t >= 2 /\ prices[t] < prices[t - 1] THEN prices[t - 1] - prices[t] ELSE 0

\* the bars the averages at bar t run over: the last w, or all if fewer
Observed(t, w) == {j \in 1 .. t : j > t - w}

RECURSIVE SumOver(_, _)
SumOver(f, S) ==
    IF S = {} THEN 0
    ELSE LET j == CHOOSE j \in S : TRUE IN f[j] + SumOver(f, S \ {j})

\* the sums of the rises and falls over the observed bars: the average gain
\* G and average loss L times the number of observed bars
TotalGain(t, w) == SumOver([j \in 1 .. Len(prices) |-> Rise(j)], Observed(t, w))
TotalLoss(t, w) == SumOver([j \in 1 .. Len(prices) |-> Fall(j)], Observed(t, w))

\* C18: RSI.  With G and L the average gain and loss over the last `window`
\* bars: if L > 0 the raw signal is Buy iff 100 - 100 / (1 + G / L) < 30,
\* Sell iff it is > 70, and Hold otherwise; if L = 0 and G > 0 the RSI is 100
\* and the raw signal is Sell.  (For G, L >= 0 with G + L > 0,
\* 100 - 100 / (1 + G / L) = 100 * G / (G + L).)
C18_Rsi ==
    Computed("rsi") =>
        \A t \in 1 .. Len(prices) :
            LET G == TotalGain(t, args.window[2])
                L == TotalLoss(t, args.window[2])
            IN  /\ L > 0 =>
                    /\ raw[t] = Buy <=> 100 * G < 30 * (G + L)
                    /\ raw[t] = Sell <=> 100 * G > 70 * (G + L)
                    /\ raw[t] \in {Hold, Buy, Sell}
                /\ (L = 0 /\ G > 0) => raw[t] = Sell

\* gains only (RSI 100, Sell), then gains and losses in balance (Hold),
\* then losses only (RSI 0, Buy)
C18_Witness ==
    /\ Computed("rsi")
    /\ \E t1, t2, t3 \in 1 .. Len(prices) :
        LET w == args.window[2]
        IN  /\ TotalLoss(t1, w) = 0 /\ TotalGain(t1, w) > 0 /\ raw[t1] = Sell
            /\ TotalLoss(t2, w) > 0 /\ TotalGain(t2, w) > 0 /\ raw[t2] = Hold
            /\ TotalLoss(t3, w) > 0 /\ raw[t3] = Buy

IntegerAbove1(w) == w[1] = "int" /\ w[2] > 1

PositiveNumber(k) == k[1] \in {"int", "float"} /\ k[2] > 0

\* the keyword arguments the methods document as valid
ValidChoice ==
    CASE args.method[2] = "bollinger" ->
             IntegerAbove1(args.window) /\ PositiveNumber(args.num_std_dev)
      [] args.method[2] = "macd" ->
             /\ IntegerAbove1(args.short_window)
             /\ IntegerAbove1(args.long_window)
             /\ IntegerAbove1(args.signal_window)
             /\ args.short_window[2] < args.long_window[2]
             /\ args.signal_window[2] <= args.short_window[2]
      [] args.method[2] \in {"roc", "rsi"} -> IntegerAbove1(args.window)
      [] OTHER -> FALSE

ConstantPrices == \A t \in 1 .. Len(prices) : prices[t] = prices[1]

AllHold(sigs) == \A t \in 1 .. Len(sigs) : sigs[t] = Hold

\* C19: for every method and every valid choice of keyword arguments, a
\* constant price series raises no error and yields Hold at every position,
\* before and after the shift.
C19_ConstantSeries ==
    (ConstantPrices /\ ValidChoice) =>
        /\ gpc # "error"
        /\ AllHold(raw)
        /\ AllHold(signals)
        /\ Returned => Len(signals) = Len(prices)

\* RSI of a constant series at least as long as the window: 0 / 0
C19_Witness ==
    /\ Returned
    /\ ConstantPrices
    /\ args.method[2] = "rsi"
    /\ IntegerAbove1(args.window)
    /\ Len(prices) > args.window[2]
    /\ AllHold(signals)

\* the error a window owes: a type error unless an integer, a range error
\* unless greater than 1
WindowError(w) ==
    IF w[1] # "int" THEN "TypeError"
    ELSE IF w[2] <= 1 THEN "ValueError"
    ELSE "ok"

\* the error num_std_dev owes: a type error unless a number, a range error
\* unless greater than 0 (NaN is not greater than 0)
NumStdDevError(k) ==
    IF k[1] \notin {"int", "float", "nan"} THEN "TypeError"
    ELSE IF ~PositiveNumber(k) THEN "ValueError"
    ELSE "ok"

\* the first error owed by the keyword arguments of the method called
KwargsError ==
    CASE args.method[2] = "bollinger" ->
             FirstError(<<WindowError(args.window),
                          NumStdDevError(args.num_std_dev)>>)
      [] args.method[2] = "macd" ->
             FirstError(<<WindowError(args.short_window),
                          WindowError(args.long_window),
                          WindowError(args.signal_window)>>)
      [] OTHER -> WindowError(args.window)

\* C20: every window of every method is accepted only if it is an integer
\* greater than 1, and Bollinger's num_std_dev only if it is a number greater
\* than 0; otherwise the call fails with the type or range error owed,
\* nothing computed.
C20_KwargsValidated ==
    (gpc \notin {"start", "dispatch"} /\ args.method[2] \in supported_methods
        /\ args.method[1] = "str") =>
        /\ KwargsError # "ok" => Failed(KwargsError)
        /\ (KwargsError = "ok" /\ args.method[2] # "macd") => gpc # "error"

----------------------------------------------------------------------------
\* Further properties of backtest_signals

AllSignalsHold == \A k \in 1 .. Len(signals) : signals[k] = Hold

\* C22: when every signal is Hold, then for any prices and valid parameters
\* every row has shares = 0, holdings = 0, cash = initial_cash and
\* assets = initial_cash.
C22_AllHold ==
    (AllSignalsHold /\ ValidParams) =>
        \A k \in Rows :
            /\ portfolio[k].shares = 0
            /\ portfolio[k].holdings = 0
            /\ portfolio[k].cash = initial_cash
            /\ portfolio[k].assets = initial_cash

\* a table returned for MaxLen bars of Hold over prices that move
C22_Witness ==
    /\ pc = "done"
    /\ AllSignalsHold
    /\ Len(portfolio) = MaxLen
    /\ prices[1] # prices[2]
    /\ prices[1] > 0 /\ prices[2] > 0

\* the rows of a call running alone, after k bars: the loop of lines 35-44
\* unrolled from the initial cash
RECURSIVE Alone(_, _)
Alone(a, k) ==
    IF k = 0
    THEN [cash |-> a.initial_cash, shares |-> 0, assets |-> a.initial_cash,
          holdings |-> 0, portfolio |-> <<>>, trade_vols |-> <<>>]
    ELSE LET before == Alone(a, k - 1)
             b == BarStep(a.prices[k], a.signals[k], before.cash,
                          before.shares, before.assets, a.trade_pct, a.tac)
         IN  [cash |-> b.cash, shares |-> b.shares, assets |-> b.assets,
              holdings |-> b.holdings,
              portfolio |-> Append(before.portfolio, b.row),
              trade_vols |-> Append(before.trade_vols, b.trade_vol)]

SameArgs == ArgsOf(runs[1]) = ArgsOf(runs[2])

AsAlone(run) ==
    LET alone == Alone(ArgsOf(run), Len(run.portfolio))
    IN  /\ run.portfolio = alone.portfolio
        /\ run.pc \in {"loop", "done"} =>
               /\ run.cash = alone.cash
               /\ run.shares = alone.shares
               /\ run.assets = alone.assets

\* C24: two calls on independent arguments, their iterations interleaved
\* in any order, each produce the rows they produce alone, and no step of
\* one call changes anything of the other.
C24_Independent ==
    /\ [](\A r \in 1 .. 2 : AsAlone(runs[r]))
    /\ [][\A r \in 1 .. 2 : runs'[r] # runs[r] => runs'[3 - r] = runs[3 - r]]_vars

\* both calls half-way, on different arguments, each holding shares
C24_Witness ==
    /\ ArgsOf(runs[1]).prices # ArgsOf(runs[2]).prices
    /\ runs[1].initial_cash # runs[2].initial_cash
    /\ \A r \in 1 .. 2 :
        /\ runs[r].pc = "loop"
        /\ Len(runs[r].portfolio) = 1
        /\ runs[r].shares > 0

\* C27: for every input accepted by validation with strictly positive
\* prices, cost_rate = 1 included, no iteration of the loop raises: the
\* call never ends in an error, and a Sell with 0 shares held appends a row
\* with cash and shares unchanged.
C27_StepsNeverRaise ==
    (ValidInput /\ PositivePrices) =>
        /\ pc # "error"
        /\ (pc = "done") =>
               \A k \in Rows :
                   (signals[k] = sell_signal /\ PrevShares(k) = 0)
                       => Unchanged(k)

Abs(n) == IF n < 0 THEN 0 - n ELSE n

\* the fee of bar k's trade is what the value at the bar's price falls by
FeeCharged(k) ==
    LET before == PrevCash(k) + PrevShares(k) * prices[k] * Den
        after == portfolio[k].cash + portfolio[k].shares * prices[k] * Den
        moved == Abs(portfolio[k].shares - PrevShares(k))
    IN  /\ after = before - moved * prices[k] * tac
        /\ after <= before
        /\ tac = 0 => after = before

\* C28 as stated: at every bar with a positive price, whatever the prices
\* of the bars before, the value after the trade, cash' + shares' x price,
\* is the value before it at the same price, cash + shares x price, less
\* |shares' - shares| x price x cost_rate.
\* (Cash is held over Den, cost_rate is tac / Den.)
C28_AnyHistory ==
    ValidParams =>
        \A k \in Rows : prices[k] > 0 => FeeCharged(k)

\* C28, amended: over a series of strictly positive prices, at every bar the
\* value after the trade is the value before it at the same price less
\* |shares' - shares| x price x cost_rate; a trade never raises the value,
\* and leaves it unchanged when cost_rate = 0.
C28_FeeAccounting ==
    (ValidParams /\ PositivePrices) =>
        \A k \in Rows : FeeCharged(k)

\* a buy and a later sell, each paying a fee
C28_Witness ==
    /\ tac > 0
    /\ PositivePrices
    /\ \E j, k \in Rows :
        /\ j < k
        /\ portfolio[j].shares > PrevShares(j)
        /\ portfolio[k].shares < PrevShares(k)

\* C29: with positive prices and cost_rate < 1 the cash a trade moves is
\* never more than the bar's trade volume, trade_pct x the assets of the
\* previous row: neither the cost a buy debits nor the proceeds a sell
\* credits.  (trade_vols is held over Den * Den.)
C29_WithinTradeVolume ==
    (ValidParams /\ PositivePrices /\ tac < Den) =>
        \A k \in Rows :
            /\ trade_vols[k] = trade_pct * PrevAssets(k)
            /\ trade_vols[k] >= 0
            /\ Abs(portfolio[k].cash - PrevCash(k)) * Den <= trade_vols[k]

\* a buy and a sell with a fee, the sell capped by the shares held
C29_Witness ==
    /\ tac > 0 /\ tac < Den
    /\ PositivePrices
    /\ \E j, k \in Rows :
        /\ portfolio[j].cash < PrevCash(j)
        /\ portfolio[k].cash > PrevCash(k)
        /\ portfolio[k].shares = 0

----------------------------------------------------------------------------
\* plot_portfolio(portfolio, title, tac, cash) (plot/plot_portfolio.py) on
\* the table of a call of backtest_signals.  plot.index is the table's
\* index, in days; plot.cash is held over Den, as is the benchmark.

PlotPrices == {<<1>>, <<1, 2>>, <<2, 1, 2>>}

PlotRuns ==
    {[prices |-> p, signals |-> g, initial_cash |-> c, tac |-> t,
      trade_pct |-> q] :
        p \in PlotPrices, g \in SeqsUpTo({0, 1, 2}, 3), c \in CashVals,
        t \in {0, Den \div 2}, q \in PctVals}

PlotCashVals == {1, 3, 2 * Den}

\* one row a day, or every row at the same timestamp
IndexChoices(n) == {[i \in 1 .. n |-> i], [i \in 1 .. n |-> 1]}

\* the elapsed time between the first and the last timestamp, in days
_calculate_years(stock_index) ==
    stock_index[Len(stock_index)] - stock_index[1]

\* The volatility itself is a float the model does not compute: the result
\* is 0 ("zero"), a float ("value") or the exception raised.  365 / years
\* is evaluated before years is compared with 0.
_calculate_annualized_volatility(stock, stock_index) ==
    IF Len(stock) <= 1 THEN "zero"
    ELSE IF _calculate_years(stock_index) = 0 THEN "ZeroDivisionError"
    ELSE "value"

\* shares * prices, or the scalar 0 broadcast over the column
_buy_and_hold_strategy(c, prs) ==
    LET first_price == prs[1]
        bought == Floor(c, Den * first_price)
    IN  IF first_price = 0 THEN [t \in 1 .. Len(prs) |-> 0]
        ELSE [t \in 1 .. Len(prs) |-> bought * prs[t] * Den]

\* shares.diff().fillna(0).ne(0).sum(): the first difference is NaN
_calculate_trades(held) ==
    Cardinality({k \in 2 .. Len(held) : held[k] - held[k - 1] # 0})

Column(name) == [k \in 1 .. Len(portfolio) |-> portfolio[k][name]]

InitPlot ==
    /\ \E a \in PlotRuns :
        /\ Len(a.signals) = Len(a.prices)
        /\ LET run == Alone(a, Len(a.prices))
           IN  /\ prices = a.prices
               /\ signals = a.signals
               /\ initial_cash = a.initial_cash
               /\ tac = a.tac
               /\ trade_pct = a.trade_pct
               /\ cash = run.cash
               /\ shares = run.shares
               /\ holdings = run.holdings
               /\ assets = run.assets
               /\ portfolio = run.portfolio
               /\ trade_vols = run.trade_vols
    /\ variant = "backtest"
    /\ kinds = [initial_cash |-> "int", tac |-> "float", trade_pct |-> "float"]
    /\ pc = "done"
    /\ err = "none"
    /\ \E c \in PlotCashVals, idx \in IndexChoices(Len(prices)) :
        plot = [cash |-> c, index |-> idx, pc |-> "start", err |-> "none",
                volatility |-> "unset", buy_and_hold |-> <<>>,
                trades |-> 0 - 1]
    /\ args = [method |-> Unused, window |-> Unused, num_std_dev |-> Unused,
               short_window |-> Unused, long_window |-> Unused,
               signal_window |-> Unused]
    /\ gpc = "idle"
    /\ gerr = "none"
    /\ raw = <<>>
    /\ runs = <<>>

plotted == <<variant, prices, signals, initial_cash, tac, trade_pct, kinds,
             pc, err, cash, shares, holdings, assets, portfolio, trade_vols,
             args, gpc, gerr, raw, runs>>

\* lines 13-15: the return and the volatility of the assets
PortfolioMetrics ==
    /\ plot.pc = "start"
    /\ LET v == _calculate_annualized_volatility(Column("assets"), plot.index)
       IN  plot' = IF v = "ZeroDivisionError"
                   THEN [plot EXCEPT !.pc = "error", !.err = v]
                   ELSE [plot EXCEPT !.pc = "benchmark", !.volatility = v]
    /\ UNCHANGED plotted

\* lines 18-22: the benchmark, its return and its volatility
Benchmark ==
    /\ plot.pc = "benchmark"
    /\ plot' = [plot EXCEPT
                   !.pc = "trades",
                   !.buy_and_hold = _buy_and_hold_strategy(plot.cash, prices)]
    /\ UNCHANGED plotted

\* line 24: the number of trades; the figure is then drawn and returned
Trades ==
    /\ plot.pc = "trades"
    /\ plot' = [plot EXCEPT !.pc = "done",
                            !.trades = _calculate_trades(Column("shares"))]
    /\ UNCHANGED plotted

NextPlot == PortfolioMetrics \/ Benchmark \/ Trades

SpecPlot == InitPlot /\ [][NextPlot]_vars

\* C25: the buy-and-hold benchmark for cash c and prices p with p[0] > 0
\* is, at every bar t, floor(c / p[0]) x p[t] plus the remainder
\* c - floor(c / p[0]) x p[0]; it is c at every bar when c buys no share at
\* the first price.
C25_BuyAndHold ==
    (plot.pc \in {"trades", "done"} /\ prices[1] > 0) =>
        LET bought == plot.cash \div (Den * prices[1])
            remainder == plot.cash - bought * prices[1] * Den
        IN  /\ Len(plot.buy_and_hold) = Len(prices)
            /\ \A t \in 1 .. Len(prices) :
                   plot.buy_and_hold[t] = bought * prices[t] * Den + remainder
            /\ bought = 0 =>
                   \A t \in 1 .. Len(prices) : plot.buy_and_hold[t] = plot.cash

\* the bars at which the trade of backtest_signals changed the shares held
TradedBars == {k \in Rows : portfolio[k].shares # PrevShares(k)}

\* C26: on the shares column of a table of backtest_signals,
\* _calculate_trades is the number of bars at which a trade changed the
\* shares held, the first bar included.
C26_TradesCounted ==
    plot.pc = "done" => plot.trades = Cardinality(TradedBars)

\* C30: for a series of more than one row whose first and last timestamps
\* coincide, _calculate_annualized_volatility returns 0 and does not raise,
\* as it does for a series of at most one row.
C30_ZeroYears ==
    (plot.pc # "start"
        /\ plot.index[1] = plot.index[Len(plot.index)]) =>
            /\ plot.pc # "error"
            /\ plot.volatility = "zero"

====
